---- MODULE Spec2Model ----
(***************************************************************************)
(* Resistor reader (server/main.py): the colour-code tables, the band      *)
(* decoder, the E24 snapper, the display formatter, the Gemini client      *)
(* ladder (SDK then REST) and the /analyze handler.                        *)
(*                                                                         *)
(* Representation.                                                         *)
(*  - Optional[T] is a sequence of length at most one: None is <<>> and a  *)
(*    present value x is <<x>>.                                            *)
(*  - A float is a record [m, e, above]: the decimal m * 10^e with m       *)
(*    stripped of trailing zeros (0 is m = 0, e = 0).  `above` is TRUE     *)
(*    when the IEEE-754 double the code holds lies above that decimal by   *)
(*    enough to move v/decade*10 off an E24 midpoint (RoundedAbove); all   *)
(*    other rounding errors stay below one unit in the last place and      *)
(*    change no comparison the code makes, so they are not represented.    *)
(*  - A multiplier 1eX is stored as its exponent X.                        *)
(***************************************************************************)
EXTENDS Integers, Sequences, FiniteSets, TLC

None == <<>>
Some(x) == <<x>>

\* ---------- Color code tables ----------
COLOR_CODE ==
  [ black  |-> [digit |-> 0, multiplier |-> 0],
    brown  |-> [digit |-> 1, multiplier |-> 1, tolerance |-> [m |-> 1,  e |-> 0,  above |-> FALSE]],
    red    |-> [digit |-> 2, multiplier |-> 2, tolerance |-> [m |-> 2,  e |-> 0,  above |-> FALSE]],
    orange |-> [digit |-> 3, multiplier |-> 3],
    yellow |-> [digit |-> 4, multiplier |-> 4],
    green  |-> [digit |-> 5, multiplier |-> 5, tolerance |-> [m |-> 5,  e |-> -1, above |-> FALSE]],
    blue   |-> [digit |-> 6, multiplier |-> 6, tolerance |-> [m |-> 25, e |-> -2, above |-> FALSE]],
    violet |-> [digit |-> 7, multiplier |-> 7, tolerance |-> [m |-> 1,  e |-> -1, above |-> FALSE]],
    grey   |-> [digit |-> 8, multiplier |-> 8, tolerance |-> [m |-> 5,  e |-> -2, above |-> FALSE]],
    white  |-> [digit |-> 9, multiplier |-> 9],
    gold   |-> [multiplier |-> -1, tolerance |-> [m |-> 5, e |-> 0, above |-> FALSE]],
    silver |-> [multiplier |-> -2, tolerance |-> [m |-> 1, e |-> 1, above |-> FALSE]] ]

TOL_COLORS == {"brown", "red", "green", "blue", "violet", "grey", "gold", "silver"}

\* Normalize Gemini's wording
ALIASES ==
  ("gray" :> "grey") @@ ("purple" :> "violet") @@ ("golden" :> "gold") @@
  ("silver color" :> "silver") @@ ("orange-brown" :> "orange") @@
  ("reddish" :> "red") @@ ("brownish" :> "brown")

\* as Field, with .get("digit", 0): a colour without a digit counts as 0
Field_digit_default(c, key) ==
  IF c \in DOMAIN COLOR_CODE /\ key \in DOMAIN COLOR_CODE[c]
    THEN Some(COLOR_CODE[c][key])
    ELSE IF key = "digit" THEN Some(0) ELSE None

\* COLOR_CODE.get(c, {}).get(key)
Field(c, key) ==
  IF c \in DOMAIN COLOR_CODE
    THEN (IF key \in DOMAIN COLOR_CODE[c] THEN Some(COLOR_CODE[c][key]) ELSE None)
    ELSE None

\* ---------- floats ----------
RECURSIVE Canon(_, _)
Canon(m, e) ==
  IF m = 0 THEN <<0, 0>>
  ELSE IF m % 10 = 0 THEN Canon(m \div 10, e + 1)
  ELSE <<m, e>>

\* The products n * 1eX (X < 0) whose double lies above the decimal at an E24
\* midpoint: 14*0.1 = 1.4000000000000001, 23*0.1 = 2.3000000000000003, ...
RoundedAbove ==
  { <<14, -1>>, <<14, -2>>, <<23, -1>>, <<41, -1>>, <<115, -2>>,
    <<140, -2>>, <<230, -2>>, <<255, -2>>, <<535, -2>> }

\* float(n * mult), mult = 1eX
FMul(n, x) ==
  LET c == Canon(n, x)
  IN  [m |-> c[1], e |-> c[2], above |-> (<<n, x>> \in RoundedAbove)]

\* the double nearest to the decimal n * 10^x
FDec(n, x) ==
  LET c == Canon(n, x)
  IN  [m |-> c[1], e |-> c[2], above |-> FALSE]

RECURSIVE Digits(_)
Digits(m) == IF m < 10 THEN 1 ELSE 1 + Digits(m \div 10)

RECURSIVE Pow10(_)
Pow10(k) == IF k <= 0 THEN 1 ELSE 10 * Pow10(k - 1)

Abs(x) == IF x < 0 THEN -x ELSE x

\* ---------- E24 snapping ----------
E24 == <<10, 11, 12, 13, 15, 16, 18, 20, 22, 24, 27, 30, 33, 36, 39, 43, 47,
         51, 56, 62, 68, 75, 82, 91>>

\* floor(log10(v)) for v > 0
FloorLog10(v) == v.e + Digits(v.m) - 1

\* 2 * |E24[i] - norm|, scaled by a power of ten so that it is an integer,
\* with the double's excess over the decimal counted as half a unit
Dist(v, i) ==
  LET d    == Digits(v.m)
      s    == Pow10(d - 2)
      n    == v.m * Pow10(2 - d)
      t    == E24[i] * s
      bias == IF v.above THEN (IF t > n THEN -1 ELSE 1) ELSE 0
  IN  2 * Abs(t - n) + bias

\* as ArgMin, taking the last index of a minimal element
ArgMinLast(v) ==
  CHOOSE i \in 1..Len(E24) :
    /\ \A j \in 1..Len(E24) : Dist(v, i) <= Dist(v, j)
    /\ \A j \in (i + 1)..Len(E24) : Dist(v, j) > Dist(v, i)

\* np.argmin: the first index of a minimal element
ArgMin(v) ==
  CHOOSE i \in 1..Len(E24) :
    /\ \A j \in 1..Len(E24) : Dist(v, i) <= Dist(v, j)
    /\ \A j \in 1..(i - 1) : Dist(v, j) > Dist(v, i)

\* as snap_e24, returning E24[idx] * decade
snap_e24_no_div(v) ==
  IF v = None THEN v
  ELSE IF v[1].m <= 0 THEN v
  ELSE LET idx == ArgMin(v[1])
       IN  Some(FDec(E24[idx], FloorLog10(v[1])))

snap_e24(v) ==
  IF v = None THEN v
  ELSE IF v[1].m <= 0 THEN v
  ELSE LET idx == ArgMin(v[1])
       IN  Some(FDec(E24[idx], FloorLog10(v[1]) - 1))

\* ---------- band decoder ----------
\* as Decode4, testing `if d1 and d2 and mult`: a digit 0 counts as missing
Decode4_truthy(colors) ==
  LET d1   == Field(colors[1], "digit")
      d2   == Field(colors[2], "digit")
      mult == Field(colors[3], "multiplier")
      tl   == Field(colors[4], "tolerance")
  IN  IF d1 # None /\ d2 # None /\ mult # None /\ d1 # Some(0) /\ d2 # Some(0)
        THEN <<Some(FMul(d1[1] * 10 + d2[1], mult[1])), tl>>
        ELSE <<None, tl>>

\* n == 4
Decode4(colors) ==
  LET d1   == Field(colors[1], "digit")
      d2   == Field(colors[2], "digit")
      mult == Field(colors[3], "multiplier")
      tl   == Field(colors[4], "tolerance")
  IN  IF d1 # None /\ d2 # None /\ mult # None
        THEN <<Some(FMul(d1[1] * 10 + d2[1], mult[1])), tl>>
        ELSE <<None, tl>>

\* n == 5
Decode5(colors) ==
  LET d1   == Field(colors[1], "digit")
      d2   == Field(colors[2], "digit")
      d3   == Field(colors[3], "digit")
      mult == Field(colors[4], "multiplier")
      tl   == Field(colors[5], "tolerance")
  IN  IF d1 # None /\ d2 # None /\ d3 # None /\ mult # None
        THEN <<Some(FMul(d1[1] * 100 + d2[1] * 10 + d3[1], mult[1])), tl>>
        ELSE <<None, tl>>

\* n == 3: salvage
Decode3(colors) ==
  LET d1   == Field(colors[1], "digit")
      d2   == Field(colors[2], "digit")
      mult == Field(colors[3], "multiplier")
  IN  IF d1 # None /\ d2 # None /\ mult # None
        THEN <<Some(FMul(d1[1] * 10 + d2[1], mult[1])), None>>
        ELSE <<None, None>>

\* as Decode6, reading the tolerance from the sixth band
Decode6_last_band(colors) ==
  LET d1   == Field(colors[1], "digit")
      d2   == Field(colors[2], "digit")
      d3   == Field(colors[3], "digit")
      mult == Field(colors[4], "multiplier")
      tl   == Field(colors[6], "tolerance")
  IN  IF d1 # None /\ d2 # None /\ d3 # None /\ mult # None
        THEN <<Some(FMul(d1[1] * 100 + d2[1] * 10 + d3[1], mult[1])), tl>>
        ELSE <<None, tl>>

\* n >= 6: ignore tempco
Decode6(colors) ==
  LET d1   == Field(colors[1], "digit")
      d2   == Field(colors[2], "digit")
      d3   == Field(colors[3], "digit")
      mult == Field(colors[4], "multiplier")
      tl   == Field(colors[5], "tolerance")
  IN  IF d1 # None /\ d2 # None /\ d3 # None /\ mult # None
        THEN <<Some(FMul(d1[1] * 100 + d2[1] * 10 + d3[1], mult[1])), tl>>
        ELSE <<None, tl>>

compute_value_from_colors(colors) ==
  LET n == Len(colors)
  IN  IF n = 4 THEN Decode4(colors)
      ELSE IF n = 5 THEN Decode5(colors)
      ELSE IF n = 3 THEN Decode3(colors)
      ELSE IF n >= 6 THEN Decode6(colors)
      ELSE <<None, None>>

\* ---------- display ----------
\* The units in the order the loop tries them: name and exponent of the scale.
UNITS == << <<"GOhm", 9>>, <<"MOhm", 6>>, <<"kOhm", 3>>, <<"Ohm", 0>> >>

\* f"{v/scale:.2f} {name}" as [hundredths, unit].  A decoded value has at most
\* three significant digits, so v/scale has at most two decimals; a snapped
\* value below 0.1 has a third decimal, which is rounded (it is never a 5).
Fmt(v, name, u) ==
  LET k == v.e + 2 - u
  IN  [hundredths |-> IF k >= 0 THEN v.m * Pow10(k)
                      ELSE (v.m + (Pow10(-k) \div 2)) \div Pow10(-k),
       unit |-> name]

\* as human, without the None guard: an absent value is shown as 0.00
human_no_guard(v) ==
  LET f    == IF v = None THEN FDec(0, 0) ELSE v[1]
      hits == {i \in 1..Len(UNITS) : f.m > 0 /\ FloorLog10(f) >= UNITS[i][2]}
  IN  IF hits # {}
        THEN LET i == CHOOSE k \in hits : \A j \in hits : k <= j
             IN  Some(Fmt(f, UNITS[i][1], UNITS[i][2]))
        ELSE Some(Fmt(f, "Ohm", 0))

human(v) ==
  IF v = None THEN None
  ELSE LET f    == v[1]
           hits == {i \in 1..Len(UNITS) : f.m > 0 /\ FloorLog10(f) >= UNITS[i][2]}
       IN  IF hits # {}
             THEN LET i == CHOOSE k \in hits : \A j \in hits : k <= j
                  IN  Some(Fmt(f, UNITS[i][1], UNITS[i][2]))
             ELSE Some(Fmt(f, "Ohm", 0))

\* norm_color: (name or "").strip().lower(), then the alias table.  The
\* names with capitals or spaces that the model uses are listed here.
StripLower(name) ==
  CASE name = "Purple" -> "purple"
    [] name = " Gold " -> "gold"
    [] OTHER           -> name

norm_color(name) ==
  LET c == StripLower(name)
  IN  IF c \in DOMAIN ALIASES THEN ALIASES[c] ELSE c

\* ---------- JSON values of a model reply ----------
JInt(n)  == [t |-> "int", n |-> n]
JStr(x)  == [t |-> "str", s |-> x]
JNull    == [t |-> "null"]
JArr(q)  == [t |-> "arr", items |-> q]
JObj(r)  == [t |-> "obj", fields |-> r]

Raise(name) == [exc |-> name]
Return(x)   == [ret |-> x]
Raised(r)   == "exc" \in DOMAIN r

\* int(b.get("index", 0))
DigitStrings == ("0" :> 0) @@ ("1" :> 1) @@ ("2" :> 2) @@ ("3" :> 3) @@ ("4" :> 4) @@ ("5" :> 5)

IndexKey(b) ==
  IF "index" \notin DOMAIN b.fields THEN Return(0)
  ELSE LET x == b.fields["index"]
       IN  IF x.t = "int" THEN Return(x.n)
           ELSE IF x.t = "str"
             THEN (IF x.s \in DOMAIN DigitStrings THEN Return(DigitStrings[x.s])
                   ELSE Raise("ValueError"))
           ELSE Raise("TypeError")

\* norm_color(b.get("color_name", ""))
ColorOf(b) ==
  IF "color_name" \notin DOMAIN b.fields THEN Return(norm_color(""))
  ELSE LET x == b.fields["color_name"]
       IN  IF x.t = "str" THEN Return(norm_color(x.s))
           ELSE IF x.t = "null" THEN Return(norm_color(""))
           ELSE IF x.t = "int" /\ x.n = 0 THEN Return(norm_color(""))
           ELSE IF x.t = "arr" /\ x.items = <<>> THEN Return(norm_color(""))
           ELSE Raise("AttributeError")

\* b.get("role") in ("digit","multiplier","tolerance")
RoleKept(b) ==
  /\ "role" \in DOMAIN b.fields
  /\ b.fields["role"].t = "str"
  /\ b.fields["role"].s \in {"digit", "multiplier", "tolerance"}

RECURSIVE SelectSeqBy(_, _)
SelectSeqBy(q, keep) ==
  IF q = <<>> THEN <<>>
  ELSE IF keep[1] THEN <<Head(q)>> \o SelectSeqBy(Tail(q), Tail(keep))
  ELSE SelectSeqBy(Tail(q), Tail(keep))

\* list.sort(key=...): stable, ascending
RECURSIVE InsertByKey(_, _)
InsertByKey(sorted, b) ==
  IF sorted = <<>> THEN <<b>>
  ELSE IF IndexKey(b).ret < IndexKey(Head(sorted)).ret
    THEN <<b>> \o sorted
    ELSE <<Head(sorted)>> \o InsertByKey(Tail(sorted), b)

RECURSIVE SortByIndex(_)
SortByIndex(q) ==
  IF q = <<>> THEN <<>>
  ELSE InsertByKey(SortByIndex(SubSeq(q, 1, Len(q) - 1)), q[Len(q)])

\* The tail of gemini_read_bands: the bands of js whose role is kept, sorted by
\* index, as normalized colour names; or the exception that ends it.
read_bands(js) ==
  IF js.t # "obj" THEN Raise("AttributeError")
  ELSE LET bands == IF "bands" \in DOMAIN js.fields THEN js.fields["bands"] ELSE JArr(<<>>)
       IN  IF bands.t \in {"null", "int"} THEN Raise("TypeError")
           ELSE IF bands.t = "str"
             THEN (IF bands.s = "" THEN Return(<<>>) ELSE Raise("AttributeError"))
           ELSE IF bands.t = "obj"
             THEN (IF DOMAIN bands.fields = {} THEN Return(<<>>) ELSE Raise("AttributeError"))
           ELSE LET q == bands.items
                IN  IF \E i \in 1..Len(q) : q[i].t # "obj" THEN Raise("AttributeError")
                    ELSE LET triples == SelectSeqBy(q, [i \in 1..Len(q) |-> RoleKept(q[i])])
                             badKey  == {i \in 1..Len(triples) : Raised(IndexKey(triples[i]))}
                         IN  IF badKey # {}
                               THEN IndexKey(triples[CHOOSE i \in badKey : \A j \in badKey : i <= j])
                               ELSE LET sorted == SortByIndex(triples)
                                        badCol == {i \in 1..Len(sorted) : Raised(ColorOf(sorted[i]))}
                                    IN  IF badCol # {} THEN Raise("AttributeError")
                                        ELSE Return([i \in 1..Len(sorted) |-> ColorOf(sorted[i]).ret])

\* ---------- Gemini wrappers ----------
\* candidates / rest_candidates: how many model ids each list holds
NumSdkCandidates == 16
NumRestCandidates == 8

\* What one attempt does: the call raises, REST answers with a status other
\* than 200, or the text that comes back is empty after strip(), is not JSON,
\* or is JSON.
SdkKinds  == {"empty", "garbage", "json"}
RestKinds == {"status", "empty", "garbage", "json"}

First(S) == CHOOSE i \in S : \A j \in S : i <= j

\* as _sdk_generate, going on to the next candidate when the text is not JSON
_sdk_generate_until_json(installed, api_key, outs) ==
  IF ~installed THEN None
  ELSE IF ~api_key THEN None
  ELSE LET okay == {i \in 1..Len(outs) : outs[i] = "json"}
       IN  IF okay = {} THEN None
           ELSE Some([text |-> outs[First(okay)], by |-> <<"sdk", First(okay)>>])

\* _sdk_generate: the text of the first candidate that does not raise
_sdk_generate(installed, api_key, outs) ==
  IF ~installed THEN None
  ELSE IF ~api_key THEN None
  ELSE LET okay == {i \in 1..Len(outs) : outs[i] # "raise"}
       IN  IF okay = {} THEN None
           ELSE Some([text |-> outs[First(okay)], by |-> <<"sdk", First(okay)>>])

\* _rest_generate: the text of the first candidate that answers 200
_rest_generate(api_key, outs) ==
  IF ~api_key THEN None
  ELSE LET okay == {i \in 1..Len(outs) : outs[i] \notin {"raise", "status"}}
       IN  IF okay = {} THEN None
           ELSE Some([text |-> outs[First(okay)], by |-> <<"rest", First(okay)>>])

\* `not txt`
NoText(t) == t = None \/ t[1].text = "empty"

\* ---------- API schema ----------
AnalyzeResponse(ok, message, cols, v, vd, tl, sn, sd, usedBy, gem) ==
  [ok |-> ok, message |-> message, colors |-> cols, value_ohms |-> v,
   value_display |-> vd, tolerance_pct |-> tl, snapped_ohms |-> sn,
   snapped_display |-> sd, used |-> usedBy, gemini |-> gem]

Failure(message) ==
  AnalyzeResponse(FALSE, Some(message), None, None, None, None, None, None, None, None)

\* ---------- orientation ----------
Reverse(q) == [i \in 1..Len(q) |-> q[Len(q) + 1 - i]]

\* as orient, reversing whenever the first colour is a tolerance colour
orient_left_only(cols) ==
  IF cols # <<>>
    THEN LET left_is_tol == cols[1] \in TOL_COLORS
         IN  IF left_is_tol THEN Reverse(cols) ELSE cols
    ELSE cols

\* as orient, reversing when exactly one end, either one, is a tolerance colour
orient_either_end(cols) ==
  IF cols # <<>>
    THEN LET left_is_tol  == cols[1] \in TOL_COLORS
             right_is_tol == cols[Len(cols)] \in TOL_COLORS
         IN  IF left_is_tol # right_is_tol THEN Reverse(cols) ELSE cols
    ELSE cols

orient(cols) ==
  IF cols # <<>>
    THEN LET left_is_tol  == cols[1] \in TOL_COLORS
             right_is_tol == cols[Len(cols)] \in TOL_COLORS
         IN  IF left_is_tol /\ ~right_is_tol THEN Reverse(cols) ELSE cols
    ELSE cols

\* ---------- bounds ----------
MaxLen == 7         \* longest colour sequence given to the decoder alone
MaxBands == 4       \* most bands in a model reply
MaxLive == 2        \* most candidates of the two ladders that do not raise
MaxMantissa == 999  \* largest digit part the decoder forms (three digit bands)

\* colour names the sequences are drawn from: a digit without and one with a
\* tolerance, the two digit-less colours and a name the table does not have
Palette == {"black", "brown", "gold", "silver", "pink"}

\* colour names as a model reply words them: "Purple" is normalized to violet,
\* pink is no colour of the table
RawPalette == {"gold", "red", "Purple", "brown", "pink"}

RECURSIVE SeqsUpTo(_, _)
SeqsUpTo(S, n) ==
  IF n = 0 THEN {<<>>}
  ELSE LET shorter == SeqsUpTo(S, n - 1)
       IN  shorter \cup {Append(q, x) : q \in {r \in shorter : Len(r) = n - 1}, x \in S}

MultExps == {COLOR_CODE[c].multiplier : c \in DOMAIN COLOR_CODE}

SnapInputs ==
  {None} \cup {Some(FMul(n, x)) : n \in (-2)..MaxMantissa, x \in MultExps}

\* The replies: a colour sequence reported in one of several shapes, and the
\* replies that are JSON but carry no band list.
RoleAt(i, n) ==
  IF i = n THEN "tolerance" ELSE IF i = n - 1 THEN "multiplier" ELSE "digit"

Band(i, n, c) ==
  JObj([index |-> JInt(i - 1), role |-> JStr(RoleAt(i, n)), color_name |-> JStr(c)])

Plain(cs) == [i \in 1..Len(cs) |-> Band(i, Len(cs), cs[i])]

SetField(b, f, x) == JObj([b.fields EXCEPT ![f] = x])

DropField(b, f) == JObj([k \in (DOMAIN b.fields) \ {f} |-> b.fields[k]])

Shapes ==
  {"plain", "listed_backwards", "no_index", "tempco_last",
   "bad_index", "null_index", "null_color", "number_color", "not_a_dict",
   "no_role"}

Shaped(cs, shape) ==
  LET p == Plain(cs)
      n == Len(cs)
  IN  CASE shape = "plain"            -> p
        [] shape = "listed_backwards" -> Reverse(p)
        [] shape = "no_index"         -> [i \in 1..n |-> DropField(p[i], "index")]
        [] shape = "tempco_last"      ->
             Append(p, JObj([index |-> JNull, role |-> JStr("tempco"), color_name |-> JStr("brown")]))
        [] shape = "bad_index"        ->
             [i \in 1..n |-> IF i = 1 THEN SetField(p[i], "index", JStr("first")) ELSE p[i]]
        [] shape = "null_index"       ->
             [i \in 1..n |-> IF i = 1 THEN SetField(p[i], "index", JNull) ELSE p[i]]
        [] shape = "null_color"       ->
             [i \in 1..n |-> IF i = 1 THEN SetField(p[i], "color_name", JNull) ELSE p[i]]
        [] shape = "number_color"     ->
             [i \in 1..n |-> IF i = 1 THEN SetField(p[i], "color_name", JInt(5)) ELSE p[i]]
        [] shape = "not_a_dict"       ->
             [i \in 1..n |-> IF i = 1 THEN JStr("red") ELSE p[i]]
        [] shape = "no_role"          ->
             [i \in 1..n |-> IF i = n THEN DropField(p[i], "role") ELSE p[i]]

BandReply(cs, shape) == JObj([bands |-> JArr(Shaped(cs, shape))])

\* JSON without a band list: [], null, an object without "bands", "bands": null
OtherReplies ==
  {JArr(<<>>), JNull, JObj([band_scheme |-> JStr("4-band")]), JObj([bands |-> JNull])}

\* The outcomes of the candidates of both ladders, SDK candidates first: every
\* candidate raises but for at most k of them.
AllRaise == [i \in 1..(NumSdkCandidates + NumRestCandidates) |-> "raise"]

KindsAt(i) == IF i <= NumSdkCandidates THEN SdkKinds ELSE RestKinds

RECURSIVE Ladders(_)
Ladders(k) ==
  IF k = 0 THEN {AllRaise}
  ELSE LET fewer == Ladders(k - 1)
       IN  fewer \cup {[o EXCEPT ![i] = kind] :
                          o \in fewer, <<i, kind>> \in {<<j, kd>> \in (DOMAIN AllRaise) \X RestKinds : kd \in KindsAt(j)}}

\* ---------- state ----------
VARIABLES
  pc,         \* position of the request in analyze / of the function applied
  file,       \* Optional[bool]: the upload decodes as an image
  env,        \* Optional: [installed: the SDK imports, api_key: GOOGLE_API_KEY is set]
  sdkOut,     \* what each SDK candidate does when called
  restOut,    \* what each REST candidate does when called
  txt,        \* Optional: [text: kind of the text, by: the candidate it came from]
  used,       \* Optional[str]: "sdk" or "rest"
  raw,        \* Optional: the parsed reply
  detected,   \* Optional[List[str]]: the colour list as gemini_read_bands returned it
  colors,     \* Optional[List[str]]: the colour list
  value,      \* Optional[float]
  tol,        \* Optional[float]
  snapped,    \* Optional[float]
  resnapped,  \* Optional[float]: snap_e24 applied to snapped
  response,   \* Optional[AnalyzeResponse]
  exception   \* Optional[str]: the exception that left the handler

vars == <<pc, file, env, sdkOut, restOut, txt, used, raw, detected, colors, value,
          tol, snapped, resnapped, response, exception>>

client == <<file, env, sdkOut, restOut, txt, used, raw, detected, exception>>

NoClient ==
  /\ file = None /\ env = None /\ sdkOut = <<>> /\ restOut = <<>>
  /\ txt = None /\ used = None /\ raw = None /\ detected = None /\ exception = None

\* ---------- Endpoint ----------
Init ==
  /\ pc = "idle"
  /\ NoClient
  /\ colors = None /\ value = None /\ tol = None /\ snapped = None
  /\ resnapped = None /\ response = None

\* A request arrives; what the upload and the remote service will do is fixed.
Upload ==
  /\ pc = "idle"
  /\ \E valid \in BOOLEAN, installed \in BOOLEAN, api_key \in BOOLEAN, o \in Ladders(MaxLive) :
       /\ file' = Some(valid)
       /\ env' = Some([installed |-> installed, api_key |-> api_key])
       /\ sdkOut' = SubSeq(o, 1, NumSdkCandidates)
       /\ restOut' = SubSeq(o, NumSdkCandidates + 1, NumSdkCandidates + NumRestCandidates)
  /\ pc' = "open"
  /\ UNCHANGED <<txt, used, raw, detected, colors, value, tol, snapped, resnapped,
                 response, exception>>

\* data = await file.read(); Image.open(...).convert("RGB")
OpenImage ==
  /\ pc = "open"
  /\ IF file[1]
       THEN pc' = "sdk" /\ UNCHANGED response
       ELSE pc' = "done" /\ response' = Some(Failure("Invalid image"))
  /\ UNCHANGED <<client, colors, value, tol, snapped, resnapped>>

CouldNotRead == "Gemini could not read bands (model/key access issue?)"

\* gemini_read_bands, 1) SDK path
SdkGenerate ==
  /\ pc = "sdk"
  /\ txt' = _sdk_generate(env[1].installed, env[1].api_key, sdkOut)
  /\ IF NoText(txt')
       THEN pc' = "rest" /\ UNCHANGED used
       ELSE pc' = "extract" /\ used' = Some("sdk")
  /\ UNCHANGED <<file, env, sdkOut, restOut, raw, detected, exception, colors, value,
                 tol, snapped, resnapped, response>>

\* gemini_read_bands, 2) REST fallback; no text: return None, None, None
RestGenerate ==
  /\ pc = "rest"
  /\ txt' = _rest_generate(env[1].api_key, restOut)
  /\ used' = Some("rest")
  /\ IF NoText(txt')
       THEN pc' = "done" /\ response' = Some(Failure(CouldNotRead))
       ELSE pc' = "extract" /\ UNCHANGED response
  /\ UNCHANGED <<file, env, sdkOut, restOut, raw, detected, exception, colors, value,
                 tol, snapped, resnapped>>

\* gemini_read_bands, json.loads(payload); on an exception: return None, None,
\* used.  Once the text is parsed, the text and the candidates of the ladders
\* are not looked at again.
ExtractJson ==
  /\ pc = "extract"
  /\ IF txt[1].text = "json"
       THEN /\ pc' = "bands"
            /\ txt' = None /\ sdkOut' = <<>> /\ restOut' = <<>>
            /\ UNCHANGED response
       ELSE /\ pc' = "done"
            /\ response' = Some(Failure(CouldNotRead))
            /\ UNCHANGED <<txt, sdkOut, restOut>>
  /\ UNCHANGED <<file, env, used, raw, detected, exception, colors, value, tol, snapped,
                 resnapped>>

\* gemini_read_bands, from js.get("bands") to the return, and `if not colors`
\* in analyze, for the reply js.
ReadBandsOf(js) ==
  /\ LET r == read_bands(js)
     IN  IF Raised(r)
           THEN /\ pc' = "crashed"
                /\ exception' = Some(r.exc)
                /\ UNCHANGED <<raw, detected, colors, response>>
           ELSE /\ raw' = Some(js)
                /\ detected' = Some(r.ret)
                /\ exception' = None
                /\ IF r.ret = <<>>
                     THEN /\ pc' = "done"
                          /\ response' = Some(Failure(CouldNotRead))
                          /\ UNCHANGED colors
                     ELSE /\ pc' = "orient"
                          /\ colors' = Some(r.ret)
                          /\ UNCHANGED response
  /\ UNCHANGED <<file, env, sdkOut, restOut, txt, used, value, tol, snapped, resnapped>>

\* What the reply holds is fixed here, where it is first looked at.
ReadBands ==
  /\ pc = "bands"
  /\ \/ \E cs \in SeqsUpTo(RawPalette, MaxBands), shape \in Shapes :
          ReadBandsOf(BandReply(cs, shape))
     \/ \E js \in OtherReplies : ReadBandsOf(js)

\* Put tolerance band to RIGHT if only one end is tolerance
Orient ==
  /\ pc = "orient"
  /\ colors' = Some(orient(colors[1]))
  /\ pc' = "decode"
  /\ UNCHANGED <<client, value, tol, snapped, resnapped, response>>

UsedName == IF used = None THEN "gemini_only/unknown" ELSE "gemini_only/" \o used[1]

\* value, tol = compute_value_from_colors(colors); snapped = snap_e24(value)
\* if value is not None else None; return AnalyzeResponse(ok=True, ...)
Respond ==
  /\ pc = "decode"
  /\ LET r  == compute_value_from_colors(colors[1])
         sn == IF r[1] # None THEN snap_e24(r[1]) ELSE None
     IN  /\ value' = r[1]
         /\ tol' = r[2]
         /\ snapped' = sn
         /\ response' = Some(AnalyzeResponse(TRUE, None, colors, r[1], human(r[1]), r[2],
                                             sn, human(sn), Some(UsedName), raw))
  /\ pc' = "done"
  /\ UNCHANGED <<client, colors, resnapped>>

Next ==
  \/ Upload \/ OpenImage \/ SdkGenerate \/ RestGenerate \/ ExtractJson
  \/ ReadBands \/ Orient \/ Respond

Spec == Init /\ [][Next]_vars

\* ---------- the decoder on its own ----------
InitDecode ==
  /\ pc = "decode_in"
  /\ colors \in {Some(q) : q \in SeqsUpTo(Palette, MaxLen)}
  /\ NoClient
  /\ value = None /\ tol = None /\ snapped = None /\ resnapped = None
  /\ response = None

DecodeColors ==
  /\ pc = "decode_in"
  /\ LET r == compute_value_from_colors(colors[1])
     IN  value' = r[1] /\ tol' = r[2]
  /\ pc' = "decoded"
  /\ UNCHANGED <<client, colors, snapped, resnapped, response>>

NextDecode == DecodeColors

SpecDecode == InitDecode /\ [][NextDecode]_vars

\* ---------- the snapper on its own ----------
InitSnap ==
  /\ pc = "snap_in"
  /\ value \in SnapInputs
  /\ NoClient
  /\ colors = None /\ tol = None /\ snapped = None /\ resnapped = None
  /\ response = None

SnapOnce ==
  /\ pc = "snap_in"
  /\ snapped' = snap_e24(value)
  /\ pc' = "snap_once"
  /\ UNCHANGED <<client, colors, value, tol, resnapped, response>>

SnapTwice ==
  /\ pc = "snap_once"
  /\ resnapped' = snap_e24(snapped)
  /\ pc' = "snap_twice"
  /\ UNCHANGED <<client, colors, value, tol, snapped, response>>

NextSnap == SnapOnce \/ SnapTwice

SpecSnap == InitSnap /\ [][NextSnap]_vars

\* ---------- properties ----------
\* the colour list gemini_read_bands returned
Detected == detected[1]

\* the colours the orientation rule counts as tolerance colours
ToleranceLooking == {"gold", "silver", "brown", "red", "green", "blue", "violet", "grey"}

GoldFirst == <<"gold", "red", "violet", "brown">>

\* C1 (as claimed): in analyze, the colour list ["gold","red","violet","brown"]
\* is reversed before it is decoded: the decoder receives
\* ["brown","violet","red","gold"].
C1_ReversedBeforeDecoding ==
  (pc = "decode" /\ Detected = GoldFirst) => colors = Some(Reverse(GoldFirst))

\* C1 (amended): in analyze, the colour list ["gold","red","violet","brown"]
\* has a tolerance colour at both ends (brown is one), so it is not reversed:
\* the decoder receives it as detected, and decodes no value from it.
C1_NotReversedBothEndsTolerance ==
  /\ (pc = "decode" /\ Detected = GoldFirst) => colors = Some(GoldFirst)
  /\ (pc = "done" /\ detected # None /\ Detected = GoldFirst) =>
        /\ response[1].colors = Some(GoldFirst)
        /\ response[1].value_ohms = None

C1_Witness ==
  pc = "done" /\ detected # None /\ Detected = GoldFirst /\ response[1].colors = Some(GoldFirst)

\* C2 (as claimed): compute_value_from_colors returns no value whenever one of
\* the digit or multiplier colours (the first three of 3 or 4 colours, the
\* first four of 5 or more) is gold, silver or a name not in the table.
NoDigitNoMultiplier(c) == c \in {"gold", "silver"} \/ c \notin DOMAIN COLOR_CODE

C2_RequiredPositions(n) == IF n >= 5 THEN 1..4 ELSE 1..3

C2_AbsentOnGoldSilverUnknown ==
  (pc = "decoded" /\ Len(colors[1]) >= 3
     /\ \E i \in C2_RequiredPositions(Len(colors[1])) : NoDigitNoMultiplier(colors[1][i]))
  => value = None

\* C2 (amended): compute_value_from_colors returns no value whenever one of
\* the digit colours (the first two of 3 or 4 colours, the first three of 5 or
\* more) is gold, silver or a name not in the table, or the multiplier colour
\* (the third, resp. the fourth) is a name not in the table; gold and silver
\* are multipliers (x0.1 and x0.01) and give a value there.
C2_DigitPositions(n) == IF n >= 5 THEN 1..3 ELSE 1..2

C2_MultiplierPosition(n) == IF n >= 5 THEN 4 ELSE 3

C2_AbsentOnMissingDigitOrMultiplier ==
  (pc = "decoded" /\ Len(colors[1]) >= 3) =>
     LET n == Len(colors[1])
     IN  /\ (\E i \in C2_DigitPositions(n) : NoDigitNoMultiplier(colors[1][i])) => value = None
         /\ colors[1][C2_MultiplierPosition(n)] \notin DOMAIN COLOR_CODE => value = None
         /\ ((\A i \in C2_DigitPositions(n) : ~NoDigitNoMultiplier(colors[1][i]))
               /\ colors[1][C2_MultiplierPosition(n)] \in {"gold", "silver"}) => value # None

C2_Witness ==
  pc = "decoded" /\ Len(colors[1]) = 4 /\ colors[1][2] = "gold" /\ colors[1][1] = "brown"
  /\ colors[1][3] = "black" /\ value = None

\* C3: every request to analyze ends in a structured AnalyzeResponse; no
\* exception leaves the handler.
C3_NoExceptionEscapes ==
  /\ pc # "crashed"
  /\ exception = None
  /\ pc = "done" => (response # None /\ (response[1].ok \/ response[1].message # None))

\* C4 (as claimed): the client returns the colours of the earliest candidate,
\* SDK candidates before REST candidates, whose text is parseable JSON, and
\* reports failure only when no candidate's text is parseable.
SdkCallable == env # None /\ env[1].installed /\ env[1].api_key

RestCallable == env # None /\ env[1].api_key

JsonCandidates ==
  {<<"sdk", i>> : i \in {j \in 1..Len(sdkOut) : SdkCallable /\ sdkOut[j] = "json"}}
  \cup {<<"rest", i>> : i \in {j \in 1..Len(restOut) : RestCallable /\ restOut[j] = "json"}}

Earlier(a, b) ==
  \/ a[1] = "sdk" /\ b[1] = "rest"
  \/ a[1] = b[1] /\ a[2] <= b[2]

ClientFailed ==
  pc = "done" /\ file = Some(TRUE) /\ response # None /\ ~response[1].ok /\ sdkOut # <<>>

SdkAnswers == {i \in 1..Len(sdkOut) : SdkCallable /\ sdkOut[i] # "raise"}

RestAnswers == {i \in 1..Len(restOut) : RestCallable /\ restOut[i] \notin {"raise", "status"}}

IsLeast(i, S) == i \in S /\ \A j \in S : i <= j

SdkTaken(i) == IsLeast(i, SdkAnswers) /\ sdkOut[i] # "empty"

SdkGivesNoText == SdkAnswers = {} \/ \E i \in SdkAnswers : IsLeast(i, SdkAnswers) /\ sdkOut[i] = "empty"

RestTaken(i) == SdkGivesNoText /\ IsLeast(i, RestAnswers) /\ restOut[i] # "empty"

C5_SixBandsAsFirstFive ==
  (pc = "decoded" /\ Len(colors[1]) >= 6) =>
     <<value, tol>> = compute_value_from_colors(SubSeq(colors[1], 1, 5))

C5_Witness ==
  pc = "decoded" /\ Len(colors[1]) = 7 /\ value # None /\ tol # None
  /\ Field(colors[1][6], "tolerance") # tol

\* C6: snap_e24 is idempotent: snap_e24(snap_e24(v)) = snap_e24(v) for v > 0.
C6_SnapIdempotent ==
  (pc = "snap_twice" /\ value # None /\ value[1].m > 0) => resnapped = snapped

C6_Witness ==
  pc = "snap_twice" /\ value # None /\ value[1].m > 0 /\ snapped # value /\ resnapped = snapped

\* C7: for v > 0, snap_e24(v) is (e/10) * decade with decade =
\* 10^floor(log10(v)) and e the E24 entry nearest to v/decade*10, the lower
\* entry on a tie; v <= 0 and None come back unchanged; snap(470) = 470,
\* snap(460) = 470, snap(0) = 0, snap(None) = None.
\* v lies in the decade 10^k: 10^k <= v < 10^(k+1)
InDecade(v, k) == Digits(v.m) + v.e - 1 = k

C7_SnapNearestLowerOnTie ==
  pc \in {"snap_once", "snap_twice"} =>
    /\ value = None => snapped = None
    /\ (value # None /\ value[1].m <= 0) => snapped = value
    /\ (value # None /\ value[1].m > 0) =>
          \E i \in 1..Len(E24) : \E k \in -3..12 :
             /\ InDecade(value[1], k)
             /\ snapped = Some(FDec(E24[i], k - 1))
             /\ \A j \in 1..Len(E24) :
                  /\ Dist(value[1], i) <= Dist(value[1], j)
                  /\ Dist(value[1], i) = Dist(value[1], j) => E24[i] <= E24[j]
    /\ value = Some(FDec(470, 0)) => snapped = Some(FDec(470, 0))
    /\ value = Some(FDec(460, 0)) => snapped = Some(FDec(470, 0))
    /\ value = Some(FDec(0, 0)) => snapped = Some(FDec(0, 0))

C7_Witness ==
  pc = "snap_once" /\ value = Some(FDec(14, 0)) /\ snapped = Some(FDec(13, 0))

\* C8: for 4 (resp. 5) colours whose first two (resp. three) have a digit and
\* whose next has a multiplier, compute_value_from_colors returns
\* (10*d1+d2)*multiplier (resp. (100*d1+10*d2+d3)*multiplier) and the tolerance
\* of the last colour, absent if it has none.
DigitColours ==
  <<"black", "brown", "red", "orange", "yellow", "green", "blue", "violet", "grey", "white">>

HasDigit(c) == \E i \in 1..Len(DigitColours) : DigitColours[i] = c

DigitOf(c) == (CHOOSE i \in 1..Len(DigitColours) : DigitColours[i] = c) - 1

HasMultiplier(c) == HasDigit(c) \/ c \in {"gold", "silver"}

\* the power of ten of the multiplier
MultiplierOf(c) == IF c = "gold" THEN -1 ELSE IF c = "silver" THEN -2 ELSE DigitOf(c)

ToleranceOf(c) ==
  CASE c = "brown"  -> Some(FDec(1, 0))
    [] c = "red"    -> Some(FDec(2, 0))
    [] c = "green"  -> Some(FDec(5, -1))
    [] c = "blue"   -> Some(FDec(25, -2))
    [] c = "violet" -> Some(FDec(1, -1))
    [] c = "grey"   -> Some(FDec(5, -2))
    [] c = "gold"   -> Some(FDec(5, 0))
    [] c = "silver" -> Some(FDec(1, 1))
    [] OTHER        -> None

C8_ValueAndTolerance ==
  pc = "decoded" =>
    LET c == colors[1]
    IN  /\ (Len(c) = 4 /\ HasDigit(c[1]) /\ HasDigit(c[2]) /\ HasMultiplier(c[3])) =>
              /\ value = Some(FMul(10 * DigitOf(c[1]) + DigitOf(c[2]), MultiplierOf(c[3])))
              /\ tol = ToleranceOf(c[4])
        /\ (Len(c) = 5 /\ HasDigit(c[1]) /\ HasDigit(c[2]) /\ HasDigit(c[3]) /\ HasMultiplier(c[4])) =>
              /\ value = Some(FMul(100 * DigitOf(c[1]) + 10 * DigitOf(c[2]) + DigitOf(c[3]),
                                   MultiplierOf(c[4])))
              /\ tol = ToleranceOf(c[5])

C8_Witness ==
  pc = "decoded" /\ colors = Some(<<"black", "brown", "silver", "gold">>)
  /\ value = Some(FDec(1, -2)) /\ tol = Some(FDec(5, 0))

\* C9: when the client yields a non-empty colour list, the response has
\* ok=true and carries the oriented colours, and if no value was decoded the
\* value, its display, the snapped value and its display are all absent; a
\* response with ok=false has a message and no colours, value, display,
\* tolerance, snapped value or snapped display.
C9_ResponseShape ==
  pc = "done" =>
    /\ (detected # None /\ Detected # <<>>) =>
          /\ response[1].ok
          /\ response[1].colors = colors
          /\ colors # None /\ colors[1] # <<>>
          /\ response[1].value_ohms = None =>
                /\ response[1].value_display = None
                /\ response[1].snapped_ohms = None
                /\ response[1].snapped_display = None
    /\ ~response[1].ok =>
          /\ response[1].message # None
          /\ response[1].colors = None
          /\ response[1].value_ohms = None
          /\ response[1].value_display = None
          /\ response[1].tolerance_pct = None
          /\ response[1].snapped_ohms = None
          /\ response[1].snapped_display = None

C9_Witness ==
  pc = "done" /\ raw # None /\ response[1].ok /\ response[1].value_ohms = None
  /\ response[1].colors # None /\ response[1].tolerance_pct # None

\* C10: the colour list is reversed before decoding exactly when its first
\* colour is a tolerance colour and its last is not; the list the decoder
\* receives never has a tolerance colour first and another colour last, and
\* orienting it again changes nothing.
C10_ReversedIffOnlyFirstIsTolerance ==
  pc = "decode" =>
    LET d    == Detected
        c    == colors[1]
        only == d[1] \in ToleranceLooking /\ d[Len(d)] \notin ToleranceLooking
    IN  /\ only => c = Reverse(d)
        /\ ~only => c = d
        /\ c # d => only
        /\ ~(c[1] \in ToleranceLooking /\ c[Len(c)] \notin ToleranceLooking)
        /\ orient(c) = c

C10_Witness ==
  pc = "decode" /\ Detected = <<"gold", "red", "violet", "pink">>
  /\ colors = Some(<<"pink", "violet", "red", "gold">>)

====
